---- MODULE Spec2Model ----
(***************************************************************************)
(* Model of the preview cache protocol, the cooperative deduplication and  *)
(* the ranked map pages of the portal2-cm-boards server.                   *)
(*                                                                         *)
(*   server/src/api/v1/handlers/sp.rs     sp, sp_post_score, sp_update     *)
(*   server/src/api/v1/handlers/coop.rs   get_cooperative_preview,         *)
(*                                        post_score_coop,                 *)
(*                                        get_cooperative_maps,            *)
(*                                        filter_coop_entries              *)
(*   server/src/api/v1/handlers/sp.rs     sp_map                           *)
(*   server/src/controllers/coop.rs       CoopMap::get_coop_map_page,      *)
(*                                        CoopPreview::get_coop_preview,   *)
(*                                        CoopPreviews::get_coop_previews  *)
(*                                                                         *)
(* Spec       : request handler tasks interleaving at their .await points  *)
(*              over the freshness table, its mutex, the blob store and    *)
(*              the score database.                                        *)
(* DedupSpec  : the two seen-set scans over a stream of paired entries.    *)
(* PageSpec   : the ranked map pages, sp_map and get_cooperative_maps, over   *)
(*              the stored rows of a map and a page size.                    *)
(* PreviewSpec: get_cooperative_preview with the loop of                     *)
(*              CoopPreviews::get_coop_previews over the map registry.       *)
(* RestartSpec: Spec started over the cache files of an earlier process.     *)
(***************************************************************************)
EXTENDS Integers, Sequences, FiniteSets, TLC

(* ------------------------------ bounds --------------------------------- *)
\* number of concurrently running request handler tasks
NumTasks == 2
\* number of score mutations the database accepts in a run
MaxWrites == 1
\* longest raw cooperative result sequence that is scanned
MaxLen == 3
\* maps in the registry of the board-wide preview
NumMaps == 2
\* most rows a preview query returns (more than the preview keeps)
MaxRows == 8

(* ------------------------- program constants --------------------------- *)
\* vec_final.truncate(7)
PREVIEW_SIZE == 7
\* points of rank 1
MAX_POINTS == 200

VARIABLES
    current_state,  \* CacheState.current_state: cache name -> is_cached
    lock_owner,     \* holder of the mutex around current_state (NoTask: free)
    blob,           \* cache files: cache name -> <<>> (absent) or <<aggregate>>
    db,             \* score data per board: number of committed mutations
    pc,             \* per task: the .await point its handler is at
    handler,        \* per task: the handler it runs
    is_cached,      \* per task: the freshness value its read observed
    previews,       \* per task: <<>> or <<aggregate computed by this read>>
    id,             \* per task: <<>> or <<db version its mutation committed>>
    last,           \* the response going out in this state, if any, with the
                    \* handler and the locals it was built from
    acked,          \* history: newest db version whose writer returned Ok
    start_acked,    \* history: acked[key] when this task's read began
    persists,       \* history: blob writes since the key was last invalidated
    raw,            \* dedup: the paired entries scanned so far, in order
    d_fn,           \* dedup: which implementation is scanning
    remove_dups,    \* dedup: the seen-set of player ids
    filtered,       \* dedup: kept entries with their ranks
    i,              \* dedup: the rank the next kept entry gets
    d_done,         \* dedup: the scan has ended and the result is truncated
    rows,           \* map page: the rows the result source holds for the map,
                    \* ascending by score
    results,        \* map page: config.proof.results, the page size
    page_fn,        \* map page: the endpoint that is asked
    page,           \* map page: the response, once sent
    store,          \* preview: map id -> verified cooperative rows of the map
    map_id_vec,     \* preview: get_coop_previews, the ids of the registry
    vec_final       \* preview: get_coop_previews, the records built so far

cacheVars == <<current_state, lock_owner, blob, db, pc, handler, is_cached,
               previews, id, last, acked, start_acked, persists>>
dedupVars == <<raw, d_fn, remove_dups, filtered, i, d_done>>
pageVars == <<rows, results, page_fn, page>>
aggVars == <<store, map_id_vec, vec_final>>
vars == <<current_state, lock_owner, blob, db, pc, handler, is_cached,
          previews, id, last, acked, start_acked, persists,
          raw, d_fn, remove_dups, filtered, i, d_done,
          rows, results, page_fn, page, store, map_id_vec, vec_final>>

(* ------------------------- cache: constants ---------------------------- *)
Tasks == 1..NumTasks
NoTask == 0

SP_PREVIEWS == "sp_previews"
COOP_PREVIEWS == "coop_previews"
Keys == {SP_PREVIEWS, COOP_PREVIEWS}

ReadHandlers == {"sp", "get_cooperative_preview"}
SpWriteHandlers == {"sp_post_score", "sp_update"}
WriteHandlers == SpWriteHandlers \cup {"post_score_coop"}

\* the cache name of the board a handler works on
KeyOf(h) == IF h \in {"sp", "sp_post_score", "sp_update"}
            THEN SP_PREVIEWS ELSE COOP_PREVIEWS

NoResp == [status |-> "none", body |-> <<>>]
Ok(b) == [status |-> "ok", body |-> b]
Err == [status |-> "err", body |-> <<>>]

\* no response is going out in this state
NoLast == [handler |-> "none", is_cached |-> FALSE, previews |-> <<>>,
           resp |-> NoResp]

\* mutations committed so far, over both boards
Writes == db[SP_PREVIEWS] + db[COOP_PREVIEWS]

Max(a, b) == IF a >= b THEN a ELSE b
Bump(n) == IF n >= 2 THEN 2 ELSE n + 1

\* tools::cache (CacheState, write_to_file, read_from_file), as the handlers
\* use it: get_current_state and update_current_state take the mutex of
\* current_state for the length of the call, so they run when it is free
LockFree == lock_owner = NoTask
get_current_state(name) == current_state[name]
update_current_state(name, value) ==
    current_state' = [current_state EXCEPT ![name] = value]
\* write(name, blob) -> success: the file holds the serialized data
write_to_file(name, data) == blob' = [blob EXCEPT ![name] = data]
\* read(name) -> blob | not_found
read_from_file(name) == blob[name]

\* start of a handler on a free task
Enter(p, h, at) ==
    /\ pc[p] = "idle"
    /\ UNCHANGED aggVars
    /\ pc' = [pc EXCEPT ![p] = at]
    /\ handler' = [handler EXCEPT ![p] = h]
    /\ start_acked' = [start_acked EXCEPT ![p] = acked[KeyOf(h)]]
    /\ last' = NoLast
    /\ UNCHANGED <<is_cached, previews, id>>
    /\ UNCHANGED <<dedupVars, pageVars>>

\* return of a handler: the response goes out, the locals are dropped
Leave(p, r) ==
    /\ last' = [handler |-> handler[p], is_cached |-> is_cached[p],
                previews |-> previews[p], resp |-> r]
    /\ pc' = [pc EXCEPT ![p] = "idle"]
    /\ handler' = [handler EXCEPT ![p] = "none"]
    /\ is_cached' = [is_cached EXCEPT ![p] = FALSE]
    /\ previews' = [previews EXCEPT ![p] = <<>>]
    /\ id' = [id EXCEPT ![p] = <<>>]
    /\ start_acked' = [start_acked EXCEPT ![p] = 0]
    /\ UNCHANGED <<dedupVars, pageVars>>

\* return of a handler outside get_coop_previews
Return(p, r) == Leave(p, r) /\ UNCHANGED aggVars

\* the handler moves on to its next .await point
Advance(p, at) ==
    /\ pc' = [pc EXCEPT ![p] = at]
    /\ last' = NoLast
    /\ UNCHANGED <<handler, start_acked>>
    /\ UNCHANGED <<dedupVars, pageVars>>

\* the same outside get_coop_previews
Goto(p, at) == Advance(p, at) /\ UNCHANGED aggVars

CacheInit ==
    /\ current_state = [k \in Keys |-> FALSE]
    /\ lock_owner = NoTask
    /\ blob = [k \in Keys |-> <<>>]
    /\ db = [k \in Keys |-> 0]
    /\ pc = [p \in Tasks |-> "idle"]
    /\ handler = [p \in Tasks |-> "none"]
    /\ is_cached = [p \in Tasks |-> FALSE]
    /\ previews = [p \in Tasks |-> <<>>]
    /\ id = [p \in Tasks |-> <<>>]
    /\ last = NoLast
    /\ acked = [k \in Keys |-> 0]
    /\ start_acked = [p \in Tasks |-> 0]
    /\ persists = [k \in Keys |-> 0]

\* process start over cache files an earlier process has left: the files
\* hold an aggregate, the table is new
RestartInit ==
    /\ current_state = [k \in Keys |-> FALSE]
    /\ lock_owner = NoTask
    /\ blob = [k \in Keys |-> <<0>>]
    /\ db = [k \in Keys |-> 0]
    /\ pc = [p \in Tasks |-> "idle"]
    /\ handler = [p \in Tasks |-> "none"]
    /\ is_cached = [p \in Tasks |-> FALSE]
    /\ previews = [p \in Tasks |-> <<>>]
    /\ id = [p \in Tasks |-> <<>>]
    /\ last = NoLast
    /\ acked = [k \in Keys |-> 0]
    /\ start_acked = [p \in Tasks |-> 0]
    /\ persists = [k \in Keys |-> 0]

(* ------------------------- cache: sp (GET /sp) ------------------------- *)
sp_Begin(p) ==
    /\ Enter(p, "sp", "sp_get_current_state")
    /\ UNCHANGED <<current_state, lock_owner, blob, db, acked, persists>>

\* sp_GetCurrentState taking a key for Fresh when its cache file exists
sp_GetCurrentState_TrustsFile(p) ==
    /\ pc[p] = "sp_get_current_state"
    /\ LockFree
    /\ LET found == get_current_state(SP_PREVIEWS)
                        \/ read_from_file(SP_PREVIEWS) # <<>> IN
        /\ is_cached' = [is_cached EXCEPT ![p] = found]
        /\ Goto(p, IF found THEN "sp_read_from_file"
                             ELSE "sp_get_sp_previews")
    /\ UNCHANGED <<current_state, lock_owner, blob, db, previews, id, acked,
                   persists>>

\* cache.get_current_state(SP_PREVIEWS).await: lock, read, unlock
sp_GetCurrentState(p) ==
    /\ pc[p] = "sp_get_current_state"
    /\ LockFree
    /\ is_cached' = [is_cached EXCEPT ![p] = get_current_state(SP_PREVIEWS)]
    /\ Goto(p, IF get_current_state(SP_PREVIEWS) THEN "sp_read_from_file"
                                                 ELSE "sp_get_sp_previews")
    /\ UNCHANGED <<current_state, lock_owner, blob, db, previews, id, acked,
                   persists>>

\* sp_GetSpPreviews persisting what it has when the fetch fails
sp_GetSpPreviews_CachesPartial(p) ==
    /\ pc[p] = "sp_get_sp_previews"
    /\ \/ /\ previews' = [previews EXCEPT ![p] = <<db[SP_PREVIEWS]>>]
          /\ Goto(p, "sp_write_to_file")
          /\ UNCHANGED <<is_cached, id, blob>>
       \/ /\ Return(p, Err)
          /\ blob' = [blob EXCEPT ![SP_PREVIEWS] = <<db[SP_PREVIEWS]>>]
    /\ UNCHANGED <<current_state, lock_owner, db, acked, persists>>

\* SpPreview::get_sp_previews(pool).await? : the aggregate of the data as it
\* is now, or an error that leaves the handler
sp_GetSpPreviews(p) ==
    /\ pc[p] = "sp_get_sp_previews"
    /\ \/ /\ previews' = [previews EXCEPT ![p] = <<db[SP_PREVIEWS]>>]
          /\ Goto(p, "sp_write_to_file")
          /\ UNCHANGED <<is_cached, id>>
       \/ Return(p, Err)
    /\ UNCHANGED <<current_state, lock_owner, blob, db, acked, persists>>

\* write_to_file("sp_previews", &sp_previews).await.is_ok()
sp_WriteToFile(p) ==
    /\ pc[p] = "sp_write_to_file"
    /\ \/ /\ write_to_file(SP_PREVIEWS, previews[p])
          /\ persists' = [persists EXCEPT ![SP_PREVIEWS] = Bump(@)]
          /\ Goto(p, "sp_update_current_state")
          /\ UNCHANGED <<is_cached, previews, id>>
       \/ /\ Return(p, Ok(previews[p]))
          /\ UNCHANGED <<blob, persists>>
    /\ UNCHANGED <<current_state, lock_owner, db, acked>>

\* sp_UpdateCurrentState with the flag update left out
sp_UpdateCurrentState_NoMark(p) ==
    /\ pc[p] = "sp_update_current_state"
    /\ LockFree
    /\ Return(p, Ok(previews[p]))
    /\ UNCHANGED <<current_state, lock_owner, blob, db, acked, persists>>

\* cache.update_current_state(SP_PREVIEWS, true).await; Ok(web::Json(sp_previews))
sp_UpdateCurrentState(p) ==
    /\ pc[p] = "sp_update_current_state"
    /\ LockFree
    /\ update_current_state(SP_PREVIEWS, TRUE)
    /\ Return(p, Ok(previews[p]))
    /\ UNCHANGED <<lock_owner, blob, db, acked, persists>>

\* sp_ReadFromFile answering from the database instead of the blob
sp_ReadFromFile_Recompute(p) ==
    /\ pc[p] = "sp_read_from_file"
    /\ \/ Return(p, Ok(<<db[SP_PREVIEWS]>>))
       \/ Return(p, Err)
    /\ UNCHANGED <<current_state, lock_owner, blob, db, acked, persists>>

\* read_from_file::<Vec<Vec<SpPreview>>>("sp_previews").await?
sp_ReadFromFile(p) ==
    /\ pc[p] = "sp_read_from_file"
    /\ \/ /\ read_from_file(SP_PREVIEWS) # <<>>
          /\ Return(p, Ok(read_from_file(SP_PREVIEWS)))
       \/ Return(p, Err)
    /\ UNCHANGED <<current_state, lock_owner, blob, db, acked, persists>>

(* ----------- cache: get_cooperative_preview (GET /coop) ---------------- *)
get_cooperative_preview_Begin(p) ==
    /\ Enter(p, "get_cooperative_preview", "coop_lock")
    /\ UNCHANGED <<current_state, lock_owner, blob, db, acked, persists>>

\* let state_data = &mut cache.current_state.lock().await;
\* let is_cached = state_data.get_mut("coop_previews").unwrap();
\* the guard lives until the handler returns
get_cooperative_preview_Lock(p) ==
    /\ pc[p] = "coop_lock"
    /\ LockFree
    /\ lock_owner' = p
    /\ is_cached' = [is_cached EXCEPT ![p] = current_state[COOP_PREVIEWS]]
    /\ Goto(p, IF current_state[COOP_PREVIEWS] THEN "coop_read_from_file"
                                               ELSE "coop_get_coop_previews")
    /\ UNCHANGED <<current_state, blob, db, previews, id, acked, persists>>

\* CoopPreviews::get_coop_previews(pool).await, matched Ok(previews) or _
get_cooperative_preview_GetCoopPreviews(p) ==
    /\ pc[p] = "coop_get_coop_previews"
    /\ \/ /\ previews' = [previews EXCEPT ![p] = <<db[COOP_PREVIEWS]>>]
          /\ Goto(p, "coop_write_to_file")
          /\ UNCHANGED <<is_cached, id, lock_owner>>
       \/ /\ Return(p, Err)
          /\ lock_owner' = NoTask
    /\ UNCHANGED <<current_state, blob, db, acked, persists>>

\* get_cooperative_preview_WriteToFile marking the key although the write failed
get_cooperative_preview_WriteToFile_MarksAnyway(p) ==
    /\ pc[p] = "coop_write_to_file"
    /\ \/ /\ write_to_file(COOP_PREVIEWS, previews[p])
          /\ persists' = [persists EXCEPT ![COOP_PREVIEWS] = Bump(@)]
          /\ Goto(p, "coop_set_cached")
          /\ UNCHANGED <<is_cached, previews, id, lock_owner, current_state>>
       \/ /\ Return(p, Ok(previews[p]))
          /\ current_state' = [current_state EXCEPT ![COOP_PREVIEWS] = TRUE]
          /\ lock_owner' = NoTask
          /\ UNCHANGED <<blob, persists>>
    /\ UNCHANGED <<db, acked>>

\* write_to_file("coop_previews", &previews).await.is_ok()
get_cooperative_preview_WriteToFile(p) ==
    /\ pc[p] = "coop_write_to_file"
    /\ \/ /\ write_to_file(COOP_PREVIEWS, previews[p])
          /\ persists' = [persists EXCEPT ![COOP_PREVIEWS] = Bump(@)]
          /\ Goto(p, "coop_set_cached")
          /\ UNCHANGED <<is_cached, previews, id, lock_owner>>
       \/ /\ Return(p, Ok(previews[p]))
          /\ lock_owner' = NoTask
          /\ UNCHANGED <<blob, persists>>
    /\ UNCHANGED <<current_state, db, acked>>

\* *is_cached = true; HttpResponse::Ok().json(previews)
get_cooperative_preview_SetCached(p) ==
    /\ pc[p] = "coop_set_cached"
    /\ current_state' = [current_state EXCEPT ![COOP_PREVIEWS] = TRUE]
    /\ Return(p, Ok(previews[p]))
    /\ lock_owner' = NoTask
    /\ UNCHANGED <<blob, db, acked, persists>>

\* get_cooperative_preview_ReadFromFile that returns without dropping the
\* MutexGuard
get_cooperative_preview_ReadFromFile_KeepsGuard(p) ==
    /\ pc[p] = "coop_read_from_file"
    /\ \/ /\ read_from_file(COOP_PREVIEWS) # <<>>
          /\ Return(p, Ok(read_from_file(COOP_PREVIEWS)))
       \/ Return(p, Err)
    /\ UNCHANGED <<current_state, lock_owner, blob, db, acked, persists>>

\* read_from_file::<Vec<CoopPreviews>>("coop_previews").await
get_cooperative_preview_ReadFromFile(p) ==
    /\ pc[p] = "coop_read_from_file"
    /\ \/ /\ read_from_file(COOP_PREVIEWS) # <<>>
          /\ Return(p, Ok(read_from_file(COOP_PREVIEWS)))
       \/ Return(p, Err)
    /\ lock_owner' = NoTask
    /\ UNCHANGED <<current_state, blob, db, acked, persists>>

(* ------------- cache: sp_post_score and sp_update (writes) ------------- *)
sp_post_score_Begin(p) ==
    /\ Enter(p, "sp_post_score", "w_insert")
    /\ UNCHANGED <<current_state, lock_owner, blob, db, acked, persists>>

sp_update_Begin(p) ==
    /\ Enter(p, "sp_update", "w_insert")
    /\ UNCHANGED <<current_state, lock_owner, blob, db, acked, persists>>

\* SpWrite_Commit with the invalidation moved before the mutation
SpWrite_Commit_InvalidatesFirst(p) ==
    /\ pc[p] = "w_insert"
    /\ handler[p] \in SpWriteHandlers
    /\ current_state' = [current_state EXCEPT ![SP_PREVIEWS] = FALSE]
    /\ \/ /\ Writes < MaxWrites
          /\ db' = [db EXCEPT ![SP_PREVIEWS] = @ + 1]
          /\ id' = [id EXCEPT ![p] = <<db[SP_PREVIEWS] + 1>>]
          /\ Goto(p, "w_invalidate")
          /\ UNCHANGED <<is_cached, previews>>
       \/ /\ Return(p, Err)
          /\ UNCHANGED db
    /\ UNCHANGED <<lock_owner, blob, acked, persists>>

\* SpWrite_Commit where a failed mutation invalidates all the same
SpWrite_Commit_InvalidatesOnFailure(p) ==
    /\ pc[p] = "w_insert"
    /\ handler[p] \in SpWriteHandlers
    /\ \/ /\ Writes < MaxWrites
          /\ db' = [db EXCEPT ![SP_PREVIEWS] = @ + 1]
          /\ id' = [id EXCEPT ![p] = <<db[SP_PREVIEWS] + 1>>]
          /\ Goto(p, "w_invalidate")
          /\ UNCHANGED <<is_cached, previews, current_state>>
       \/ /\ Return(p, Err)
          /\ current_state' = [current_state EXCEPT ![SP_PREVIEWS] = FALSE]
          /\ UNCHANGED db
    /\ UNCHANGED <<lock_owner, blob, acked, persists>>

\* Changelog::insert_changelog(pool, params.0).await?   (sp_post_score)
\* Changelog::update_changelog(pool, params.0).await?   (sp_update)
SpWrite_Commit(p) ==
    /\ pc[p] = "w_insert"
    /\ handler[p] \in SpWriteHandlers
    /\ \/ /\ Writes < MaxWrites
          /\ db' = [db EXCEPT ![SP_PREVIEWS] = @ + 1]
          /\ id' = [id EXCEPT ![p] = <<db[SP_PREVIEWS] + 1>>]
          /\ Goto(p, "w_invalidate")
          /\ UNCHANGED <<is_cached, previews>>
       \/ /\ Return(p, Err)
          /\ UNCHANGED db
    /\ UNCHANGED <<current_state, lock_owner, blob, acked, persists>>

\* SpWrite_Invalidate that marks every key Stale
SpWrite_Invalidate_AllKeys(p) ==
    /\ pc[p] = "w_invalidate"
    /\ handler[p] \in SpWriteHandlers
    /\ LockFree
    /\ current_state' = [k \in Keys |-> FALSE]
    /\ persists' = [persists EXCEPT ![SP_PREVIEWS] = 0]
    /\ acked' = [acked EXCEPT ![SP_PREVIEWS] = Max(@, id[p][1])]
    /\ Return(p, Ok(id[p]))
    /\ UNCHANGED <<lock_owner, blob, db>>

\* cache.update_current_state(SP_PREVIEWS, false).await; Ok(web::Json(id))
SpWrite_Invalidate(p) ==
    /\ pc[p] = "w_invalidate"
    /\ handler[p] \in SpWriteHandlers
    /\ LockFree
    /\ update_current_state(SP_PREVIEWS, FALSE)
    /\ persists' = [persists EXCEPT ![SP_PREVIEWS] = 0]
    /\ acked' = [acked EXCEPT ![SP_PREVIEWS] = Max(@, id[p][1])]
    /\ Return(p, Ok(id[p]))
    /\ UNCHANGED <<lock_owner, blob, db>>

(* ------------------- cache: post_score_coop (write) -------------------- *)
post_score_coop_Begin(p) ==
    /\ Enter(p, "post_score_coop", "w_insert")
    /\ UNCHANGED <<current_state, lock_owner, blob, db, acked, persists>>

\* post_score_coop_Insert that answers with an error when the insert fails
post_score_coop_Insert_ReportsFailure(p) ==
    /\ pc[p] = "w_insert"
    /\ handler[p] = "post_score_coop"
    /\ \/ /\ Writes < MaxWrites
          /\ db' = [db EXCEPT ![COOP_PREVIEWS] = @ + 1]
          /\ acked' = [acked EXCEPT ![COOP_PREVIEWS] =
                          Max(@, db[COOP_PREVIEWS] + 1)]
          /\ Return(p, Ok(<<1>>))
       \/ /\ UNCHANGED <<db, acked>>
          /\ Return(p, Err)
    /\ UNCHANGED <<current_state, lock_owner, blob, persists>>

\* let res = CoopBundled::insert_coop_bundled(pool, params.0).await;
\* let id = 1; HttpResponse::Ok().json(id)     (res is not looked at)
post_score_coop_Insert(p) ==
    /\ pc[p] = "w_insert"
    /\ handler[p] = "post_score_coop"
    /\ \/ /\ Writes < MaxWrites
          /\ db' = [db EXCEPT ![COOP_PREVIEWS] = @ + 1]
          /\ acked' = [acked EXCEPT ![COOP_PREVIEWS] =
                          Max(@, db[COOP_PREVIEWS] + 1)]
       \/ UNCHANGED <<db, acked>>
    /\ Return(p, Ok(<<1>>))
    /\ UNCHANGED <<current_state, lock_owner, blob, persists>>

(* ------------- cache: a request dropped before it returns -------------- *)
\* the .await points of a preview read between its check of a Stale flag
\* and its mark of the flag
RecomputeLabels ==
    {"sp_get_sp_previews", "sp_write_to_file", "sp_update_current_state",
     "coop_get_coop_previews", "coop_write_to_file", "coop_set_cached"}

\* no response goes out of a dropped handler
Dropped(at) ==
    [status |-> IF at \in RecomputeLabels THEN "dropped_in_recompute"
                                          ELSE "dropped",
     body |-> <<>>]

\* the future of a handler is dropped at the .await it is suspended at (the
\* client went away): the handler runs no further step, its locals and the
\* MutexGuard it may hold are dropped. The handlers spawn no task.
Cancel(p) ==
    /\ pc[p] # "idle"
    /\ lock_owner' = IF lock_owner = p THEN NoTask ELSE lock_owner
    /\ Return(p, Dropped(pc[p]))
    /\ UNCHANGED <<current_state, blob, db, acked, persists>>

(* ------------------- cooperative deduplication ------------------------- *)
\* Player ids are compared for equality only (HashMap::insert), so the raw
\* rows name their players in order of first appearance: "A", then "B", ...
PlayerNames == <<"A", "B", "C", "D", "E", "F", "G", "H", "I", "J",
                 "K", "L", "M", "N", "O", "P", "Q", "R", "S", "T">>
Players == {PlayerNames[n] : n \in 1..(2 * MaxLen)}

\* the id each implementation marks as seen before the scan
EMPTY_ID == ""
DEFAULT_ID == "N/A"
Placeholder(fn) == IF fn = "filter_coop_entries" THEN EMPTY_ID ELSE DEFAULT_ID

\* ids a raw row may carry after the rows in r: both placeholder strings,
\* every player named so far, and the next unnamed player
IdsOf(r) == {r[m][1] : m \in 1..Len(r)} \cup {r[m][2] : m \in 1..Len(r)}
NextPlayer(used) ==
    LET n == Cardinality(used \cap Players) + 1 IN {PlayerNames[n]}
Slot1(r) == {EMPTY_ID, DEFAULT_ID} \cup (IdsOf(r) \cap Players)
                \cup NextPlayer(IdsOf(r))
Slot2(r, a) == {EMPTY_ID, DEFAULT_ID} \cup ((IdsOf(r) \cup {a}) \cap Players)
                \cup NextPlayer(IdsOf(r) \cup {a})
NextEntries(r) == UNION {{<<a, b>> : b \in Slot2(r, a)} : a \in Slot1(r)}

\* HashMap::insert(key, 1): Some(_) when the key was present; the key is
\* present afterwards
WasPresent(seen, key) == key \in seen
Inserted(seen, key) == seen \cup {key}

\* LoopBody with the arms exchanged: only a row of two seen players is kept
LoopBody_KeepsOnlyRepeats(seen, e) ==
    LET had1 == WasPresent(seen, e[1])
        seen1 == Inserted(seen, e[1])
        had2 == WasPresent(seen1, e[2])
        seen2 == Inserted(seen1, e[2])
    IN  [seen |-> seen2, keep |-> had1 /\ had2]

\* LoopBody skipping every entry whose first player was seen
LoopBody_SkipsOnFirst(seen, e) ==
    LET had1 == WasPresent(seen, e[1])
        seen1 == Inserted(seen, e[1])
        seen2 == Inserted(seen1, e[2])
    IN  [seen |-> seen2, keep |-> ~had1]

\* LoopBody keeping an entry only when neither player was seen
LoopBody_NeedsBothNew(seen, e) ==
    LET had1 == WasPresent(seen, e[1])
        seen1 == Inserted(seen, e[1])
        had2 == WasPresent(seen1, e[2])
        seen2 == Inserted(seen1, e[2])
    IN  [seen |-> seen2, keep |-> ~had1 /\ ~had2]

\* one iteration of `for entry in coop_entries`: both ids are inserted,
\* profile_number1 first; the entry is skipped only on Some(_), Some(_)
LoopBody(seen, e) ==
    LET had1 == WasPresent(seen, e[1])
        seen1 == Inserted(seen, e[1])
        had2 == WasPresent(seen1, e[2])
        seen2 == Inserted(seen1, e[2])
    IN  [seen |-> seen2, keep |-> ~(had1 /\ had2)]

\* tools::helpers::score, the points of a rank: a decay from MAX_POINTS that
\* never rises
score(rank) == IF rank > MAX_POINTS THEN 0 ELSE MAX_POINTS - (rank - 1)

\* Vec::truncate(len)
Truncated(vec, len) == SubSeq(vec, 1, IF Len(vec) < len THEN Len(vec) ELSE len)

\* CoopRanked starting its ranks at 0
CoopRanked_ZeroBased(entry, rank) ==
    [map_data |-> entry, rank |-> rank - 1, points |-> score(rank)]

\* CoopRanked giving the points of the rank below
CoopRanked_PointsOfNextRank(entry, rank) ==
    [map_data |-> entry, rank |-> rank, points |-> score(rank + 1)]

\* CoopRanked { map_data: entry.clone(), rank: i, points: score(i) }
CoopRanked(entry, rank) ==
    [map_data |-> entry, rank |-> rank, points |-> score(rank)]

DedupIdle ==
    /\ raw = <<>>
    /\ d_fn = "none"
    /\ remove_dups = {}
    /\ filtered = <<>>
    /\ i = 1
    /\ d_done = FALSE

\* the state before the loop: an empty result, the placeholder marked seen
DedupInit ==
    /\ raw = <<>>
    /\ d_fn \in {"filter_coop_entries", "get_coop_preview"}
    /\ remove_dups = {Placeholder(d_fn)}
    /\ filtered = <<>>
    /\ i = 1
    /\ d_done = FALSE

\* filter_coop_entries: the loop takes the next row of coop_entries
filter_coop_entries_Loop ==
    /\ d_fn = "filter_coop_entries"
    /\ ~d_done
    /\ Len(raw) < MaxLen
    /\ \E entry \in NextEntries(raw) :
        LET b == LoopBody(remove_dups, entry) IN
        /\ raw' = Append(raw, entry)
        /\ remove_dups' = b.seen
        /\ filtered' = IF b.keep
                       THEN Append(filtered, CoopRanked(entry, i))
                       ELSE filtered
        /\ i' = IF b.keep THEN i + 1 ELSE i
    /\ UNCHANGED <<d_fn, d_done>>
    /\ UNCHANGED <<cacheVars, pageVars, aggVars>>

\* coop_entries_filtered.truncate(limit); coop_entries_filtered
filter_coop_entries_Truncate ==
    /\ d_fn = "filter_coop_entries"
    /\ ~d_done
    /\ \E limit \in 0..MaxLen :
        filtered' = Truncated(filtered, limit)
    /\ d_done' = TRUE
    /\ UNCHANGED <<raw, d_fn, remove_dups, i>>
    /\ UNCHANGED <<cacheVars, pageVars, aggVars>>

\* CoopPreview::get_coop_preview: the loop takes the next row of res
get_coop_preview_Loop ==
    /\ d_fn = "get_coop_preview"
    /\ ~d_done
    /\ Len(raw) < MaxLen
    /\ \E entry \in NextEntries(raw) :
        LET b == LoopBody(remove_dups, entry) IN
        /\ raw' = Append(raw, entry)
        /\ remove_dups' = b.seen
        /\ filtered' = IF b.keep
                       THEN Append(filtered, entry)
                       ELSE filtered
    /\ UNCHANGED <<d_fn, i, d_done>>
    /\ UNCHANGED <<cacheVars, pageVars, aggVars>>

\* vec_final.truncate(7); Ok(vec_final)
get_coop_preview_Truncate ==
    /\ d_fn = "get_coop_preview"
    /\ ~d_done
    /\ filtered' = Truncated(filtered, PREVIEW_SIZE)
    /\ d_done' = TRUE
    /\ UNCHANGED <<raw, d_fn, remove_dups, i>>
    /\ UNCHANGED <<cacheVars, pageVars, aggVars>>

(* --------------------------- ranked map pages --------------------------- *)
\* A map page row is <<profile_number1, profile_number2, score>> on the
\* cooperative board and <<profile_number, score>> on the solo board.  The
\* result source orders by score ascending: a row has the score of the row
\* before it or the next higher one.  Players are named in order of first
\* appearance; the two players of a pair differ.
NextScores(r) == IF r = <<>> THEN {100}
                 ELSE LET s == r[Len(r)][Len(r[Len(r)])] IN {s, s + 1}
PairIds(r) == (IdsOf(r) \cap Players)
NextPairs(r) ==
    UNION {{<<a, b>> : b \in ((PairIds(r) \cup {a}) \cup
                              NextPlayer(PairIds(r) \cup {a})) \ {a}}
           : a \in PairIds(r) \cup NextPlayer(PairIds(r))}
NextCoopRows(r) ==
    {<<e[1], e[2], s>> : e \in NextPairs(r), s \in NextScores(r)}
SoloIds(r) == {r[m][1] : m \in 1..Len(r)} \cap Players
NextSoloRows(r) ==
    {<<a, s>> : a \in {EMPTY_ID} \cup SoloIds(r) \cup NextPlayer(SoloIds(r)),
                s \in NextScores(r)}

RECURSIVE CoopInputs(_)
CoopInputs(n) ==
    IF n = 0 THEN {<<>>}
    ELSE LET shorter == CoopInputs(n - 1) IN
         shorter \cup UNION {{Append(r, e) : e \in NextCoopRows(r)}
                             : r \in {t \in shorter : Len(t) = n - 1}}
RECURSIVE SoloInputs(_)
SoloInputs(n) ==
    IF n = 0 THEN {<<>>}
    ELSE LET shorter == SoloInputs(n - 1) IN
         shorter \cup UNION {{Append(r, e) : e \in NextSoloRows(r)}
                             : r \in {t \in shorter : Len(t) = n - 1}}

\* filter_coop_entries, the loop from the entry at index n on: seen is
\* remove_dups, acc is coop_entries_filtered, next_rank is i
RECURSIVE FilterLoop(_, _, _, _, _)
FilterLoop(coop_entries, n, seen, acc, next_rank) ==
    IF n > Len(coop_entries) THEN acc
    ELSE LET entry == coop_entries[n]
             b == LoopBody(seen, entry)
         IN  IF b.keep
             THEN FilterLoop(coop_entries, n + 1, b.seen,
                             Append(acc, CoopRanked(entry, next_rank)),
                             next_rank + 1)
             ELSE FilterLoop(coop_entries, n + 1, b.seen, acc, next_rank)

\* filter_coop_entries(coop_entries, limit)
filter_coop_entries(coop_entries, limit) ==
    Truncated(FilterLoop(coop_entries, 1, {EMPTY_ID}, <<>>, 1), limit)

\* CoopMap::get_coop_map_page, the Ok arm: res.truncate(limit); Ok(res)
get_coop_map_page(stored, limit) == Truncated(stored, limit)

\* CoopPreview::get_coop_preview, the loop from the row at index n on: seen
\* is remove_dups, acc is vec_final
RECURSIVE PreviewLoop(_, _, _, _)
PreviewLoop(res, n, seen, acc) ==
    IF n > Len(res) THEN acc
    ELSE LET entry == res[n]
             b == LoopBody(seen, entry)
         IN  PreviewLoop(res, n + 1, b.seen,
                         IF b.keep THEN Append(acc, entry) ELSE acc)

\* get_coop_preview without the truncation
get_coop_preview_KeepsAll(res) == PreviewLoop(res, 1, {DEFAULT_ID}, <<>>)

\* CoopPreview::get_coop_preview on the rows res of its query
get_coop_preview(res) ==
    Truncated(PreviewLoop(res, 1, {DEFAULT_ID}, <<>>), PREVIEW_SIZE)

\* a Deduplicator that lets every row through
Deduplicator_KeepsAll(entries, n, seen) == SubSeq(entries, n, Len(entries))

\* the solo Deduplicator: a seen-set pass that keeps the first row of every
\* player, the blank id counting as seen
RECURSIVE Deduplicator(_, _, _)
Deduplicator(entries, n, seen) ==
    IF n > Len(entries) THEN <<>>
    ELSE IF entries[n][1] \in seen
         THEN Deduplicator(entries, n + 1, seen)
         ELSE <<entries[n]>> \o
              Deduplicator(entries, n + 1, seen \cup {entries[n][1]})

\* SpMap::get_sp_map_page(pool, map_id, limit, cat_id, game_id), the Ok case:
\* each player's best row, at most limit of them
get_sp_map_page(stored, limit) ==
    Truncated(Deduplicator(stored, 1, {EMPTY_ID}), limit)

\* SpRanked { map_data: entry, rank: i as i32 + 1, points: score(i as i32 + 1) }
\* for the entry at 0-based position idx
SpRanked(entry, idx) ==
    [map_data |-> entry, rank |-> idx + 1, points |-> score(idx + 1)]

\* the loop of sp_map over sp_map.into_iter().enumerate()
ranked_vec(sp_map_page) ==
    [n \in 1..Len(sp_map_page) |-> SpRanked(sp_map_page[n], n - 1)]

NoPage == [status |-> "none", body |-> <<>>]

PageIdle ==
    /\ rows = <<>>
    /\ results = 0
    /\ page_fn = "none"
    /\ page = NoPage

\* a request for a map page: the stored rows of the map and the page size
PageInit ==
    /\ page_fn \in {"sp_map", "get_cooperative_maps"}
    /\ rows \in IF page_fn = "sp_map" THEN SoloInputs(MaxLen)
                                      ELSE CoopInputs(MaxLen)
    /\ results \in 1..MaxLen
    /\ page = NoPage

\* the freshness table and the cache files as any run may have left them
PageCacheInit ==
    /\ current_state \in [Keys -> BOOLEAN]
    /\ lock_owner = NoTask
    /\ blob = [k \in Keys |-> IF current_state[k] THEN <<0>> ELSE <<>>]
    /\ db = [k \in Keys |-> 0]
    /\ pc = [p \in Tasks |-> "idle"]
    /\ handler = [p \in Tasks |-> "none"]
    /\ is_cached = [p \in Tasks |-> FALSE]
    /\ previews = [p \in Tasks |-> <<>>]
    /\ id = [p \in Tasks |-> <<>>]
    /\ last = NoLast
    /\ acked = [k \in Keys |-> 0]
    /\ start_acked = [p \in Tasks |-> 0]
    /\ persists = [k \in Keys |-> IF current_state[k] THEN 1 ELSE 0]

\* GET /map/sp/{map_id}: get_sp_map_page(..).await? and the ranking loop
sp_map ==
    /\ page_fn = "sp_map"
    /\ page = NoPage
    /\ \/ page' = Ok(ranked_vec(get_sp_map_page(rows, results)))
       \/ page' = Err
    /\ UNCHANGED <<rows, results, page_fn>>
    /\ UNCHANGED <<cacheVars, dedupVars, aggVars>>

\* get_cooperative_maps keeping its page in the cache file of the previews
get_cooperative_maps_CachesPage ==
    /\ page_fn = "get_cooperative_maps"
    /\ page = NoPage
    /\ \/ /\ page' = Ok(filter_coop_entries(get_coop_map_page(rows, results),
                                            results))
          /\ write_to_file(COOP_PREVIEWS, <<page'.body>>)
       \/ /\ page' = Err
          /\ UNCHANGED blob
    /\ UNCHANGED <<rows, results, page_fn>>
    /\ UNCHANGED <<current_state, lock_owner, db, pc, handler, is_cached,
                   previews, id, last, acked, start_acked, persists>>
    /\ UNCHANGED <<dedupVars, aggVars>>

\* GET /map/coop/{map_id}: get_coop_map_page(..).await matched Ok or _
get_cooperative_maps ==
    /\ page_fn = "get_cooperative_maps"
    /\ page = NoPage
    /\ \/ page' = Ok(filter_coop_entries(get_coop_map_page(rows, results),
                                         results))
       \/ page' = Err
    /\ UNCHANGED <<rows, results, page_fn>>
    /\ UNCHANGED <<cacheVars, dedupVars, aggVars>>

(* ------------------------ board-wide preview --------------------------- *)
\* Maps::get_steam_ids(pool, true): the cooperative maps, in registry order
CoopMapIds == <<"47825", "47828", "47829", "47830">>
Registry == SubSeq(CoopMapIds, 1, NumMaps)
RegistryIds == {Registry[n] : n \in 1..Len(Registry)}

\* the map id written into the text of the preview query
QUERY_MAP == "47825"

\* the stored rows of a map: n pairs of players new to the map; with d = 1
\* the second row is a second run of the first pair
PreviewRows(n, d) ==
    [j \in 1..n |-> IF d = 1 /\ j = 2
                    THEN <<PlayerNames[1], PlayerNames[2]>>
                    ELSE <<PlayerNames[2 * j - 1], PlayerNames[2 * j]>>]
PreviewInputs == {PreviewRows(n, d) : n \in 0..MaxRows, d \in {0, 1}}

\* the rows the query of get_coop_preview(pool, map_id) returns: map_id is
\* bound, the statement has no parameter and selects map_id = '47825'
QueryRows(map_id) == store[QUERY_MAP]

AggIdle ==
    /\ store = <<>>
    /\ map_id_vec = <<>>
    /\ vec_final = <<>>

PreviewInit ==
    /\ store \in [RegistryIds -> PreviewInputs]
    /\ map_id_vec = <<>>
    /\ vec_final = <<>>

\* let map_id_vec = Maps::get_steam_ids(pool, true).await?;
\* let mut vec_final = Vec::new();
get_coop_previews_GetSteamIds(p) ==
    /\ pc[p] = "coop_get_coop_previews"
    /\ \/ /\ map_id_vec' = Registry
          /\ vec_final' = <<>>
          /\ Advance(p, "get_coop_previews_loop")
          /\ UNCHANGED store
       \/ /\ Advance(p, "get_coop_previews_err")
          /\ UNCHANGED aggVars
    /\ UNCHANGED <<current_state, lock_owner, blob, db, is_cached, previews,
                   id, acked, persists>>

\* get_coop_previews_Loop going on to the next map when a fetch fails
get_coop_previews_Loop_SkipsFailedMap(p) ==
    /\ pc[p] = "get_coop_previews_loop"
    /\ Len(vec_final) < Len(map_id_vec)
    /\ LET map_id == map_id_vec[Len(vec_final) + 1] IN
        \/ /\ vec_final' =
                Append(vec_final,
                       [map_id |-> map_id,
                        scores |-> get_coop_preview(QueryRows(map_id))])
           /\ Advance(p, "get_coop_previews_loop")
           /\ UNCHANGED <<store, map_id_vec>>
        \/ /\ map_id_vec' = SubSeq(map_id_vec, 1, Len(vec_final)) \o
                            SubSeq(map_id_vec, Len(vec_final) + 2,
                                   Len(map_id_vec))
           /\ Advance(p, "get_coop_previews_loop")
           /\ UNCHANGED <<store, vec_final>>
    /\ UNCHANGED <<current_state, lock_owner, blob, db, is_cached, previews,
                   id, acked, persists>>

\* for map_id in map_id_vec.iter():
\*     let vec_temp = CoopPreview::get_coop_preview(pool, map_id).await?;
\*     vec_final.push(CoopPreviews { map_id, scores: vec_temp })
get_coop_previews_Loop(p) ==
    /\ pc[p] = "get_coop_previews_loop"
    /\ Len(vec_final) < Len(map_id_vec)
    /\ LET map_id == map_id_vec[Len(vec_final) + 1] IN
        \/ /\ vec_final' =
                Append(vec_final,
                       [map_id |-> map_id,
                        scores |-> get_coop_preview(QueryRows(map_id))])
           /\ Advance(p, "get_coop_previews_loop")
           /\ UNCHANGED <<store, map_id_vec>>
        \/ /\ Advance(p, "get_coop_previews_err")
           /\ UNCHANGED aggVars
    /\ UNCHANGED <<current_state, lock_owner, blob, db, is_cached, previews,
                   id, acked, persists>>

\* Ok(vec_final), matched Ok(previews) by get_cooperative_preview
get_coop_previews_Ok(p) ==
    /\ pc[p] = "get_coop_previews_loop"
    /\ Len(vec_final) = Len(map_id_vec)
    /\ previews' = [previews EXCEPT ![p] = <<vec_final>>]
    /\ map_id_vec' = <<>>
    /\ vec_final' = <<>>
    /\ Advance(p, "coop_write_to_file")
    /\ UNCHANGED <<current_state, lock_owner, blob, db, is_cached, id, acked,
                   persists, store>>

\* the Err of a `?`, matched _ by get_cooperative_preview:
\* HttpResponse::NotFound().body("Error fetching coop map previews.")
get_cooperative_preview_NotFound(p) ==
    /\ pc[p] = "get_coop_previews_err"
    /\ Leave(p, Err)
    /\ lock_owner' = NoTask
    /\ map_id_vec' = <<>>
    /\ vec_final' = <<>>
    /\ UNCHANGED <<current_state, blob, db, acked, persists, store>>

(* --------------------------- specifications ---------------------------- *)
Init == CacheInit /\ DedupIdle /\ PageIdle /\ AggIdle

Next ==
    \E p \in Tasks :
        \/ sp_Begin(p)
        \/ sp_GetCurrentState(p)
        \/ sp_GetSpPreviews(p)
        \/ sp_WriteToFile(p)
        \/ sp_UpdateCurrentState(p)
        \/ sp_ReadFromFile(p)
        \/ get_cooperative_preview_Begin(p)
        \/ get_cooperative_preview_Lock(p)
        \/ get_cooperative_preview_GetCoopPreviews(p)
        \/ get_cooperative_preview_WriteToFile(p)
        \/ get_cooperative_preview_SetCached(p)
        \/ get_cooperative_preview_ReadFromFile(p)
        \/ sp_post_score_Begin(p)
        \/ sp_update_Begin(p)
        \/ SpWrite_Commit(p)
        \/ SpWrite_Invalidate(p)
        \/ post_score_coop_Begin(p)
        \/ post_score_coop_Insert(p)

Spec == Init /\ [][Next]_vars

DedupSpecInit == CacheInit /\ DedupInit /\ PageIdle /\ AggIdle

DedupNext ==
    \/ filter_coop_entries_Loop
    \/ filter_coop_entries_Truncate
    \/ get_coop_preview_Loop
    \/ get_coop_preview_Truncate

DedupSpec == DedupSpecInit /\ [][DedupNext]_vars

RestartSpecInit == RestartInit /\ DedupIdle /\ PageIdle /\ AggIdle

RestartSpec == RestartSpecInit /\ [][Next]_vars

PageSpecInit == PageCacheInit /\ DedupIdle /\ PageInit /\ AggIdle

PageNext ==
    \/ sp_map
    \/ get_cooperative_maps

PageSpec == PageSpecInit /\ [][PageNext]_vars

PreviewSpecInit == CacheInit /\ DedupIdle /\ PageIdle /\ PreviewInit

PreviewNext ==
    \E p \in Tasks :
        \/ get_cooperative_preview_Begin(p)
        \/ get_cooperative_preview_Lock(p)
        \/ get_coop_previews_GetSteamIds(p)
        \/ get_coop_previews_Loop(p)
        \/ get_coop_previews_Ok(p)
        \/ get_cooperative_preview_NotFound(p)
        \/ get_cooperative_preview_WriteToFile(p)
        \/ get_cooperative_preview_SetCached(p)
        \/ get_cooperative_preview_ReadFromFile(p)

PreviewSpec == PreviewSpecInit /\ [][PreviewNext]_vars

\* the steps of task p that wait for the lock over the flags
LockStep(p) ==
    \/ sp_GetCurrentState(p)
    \/ sp_UpdateCurrentState(p)
    \/ get_cooperative_preview_Lock(p)
    \/ SpWrite_Invalidate(p)

\* the steps of task p that wait for a collaborator (database, blob store)
CollaboratorStep(p) ==
    \/ sp_GetSpPreviews(p)
    \/ sp_WriteToFile(p)
    \/ sp_ReadFromFile(p)
    \/ get_cooperative_preview_GetCoopPreviews(p)
    \/ get_cooperative_preview_WriteToFile(p)
    \/ get_cooperative_preview_SetCached(p)
    \/ get_cooperative_preview_ReadFromFile(p)
    \/ SpWrite_Commit(p)
    \/ post_score_coop_Insert(p)

\* the handlers under the scheduling of the runtime: every collaborator
\* call returns and the task is polled again; the mutex hands the lock to
\* its waiters in turn, so a waiter does not lose every race for it.
\* Requests need not arrive.
FairSpec ==
    /\ Init
    /\ [][Next]_vars
    /\ \A p \in Tasks : WF_vars(CollaboratorStep(p))
    /\ \A p \in Tasks : SF_vars(LockStep(p))

\* the handlers, each of which may be dropped before it returns
CancelNext ==
    \/ Next
    \/ \E p \in Tasks : Cancel(p)

CancelSpec == Init /\ [][CancelNext]_vars

(* ------------------------------ claims --------------------------------- *)
\* task p's handler returns in this step
Returns(p) == pc[p] # "idle" /\ pc'[p] = "idle"
\* a response of a handler in hs is going out in this state
Sent(hs) == last.handler \in hs
SentOk(hs) == last.handler \in hs /\ last.resp.status = "ok"

\* C1: no stale data after a write. A preview read that starts after a write
\* handler has committed its mutation and returned answers with an aggregate
\* computed from data that includes that mutation: the data version in its
\* body is at least the newest version acknowledged when the read began.
C1_NoStaleAfterWrite ==
    [][\A p \in Tasks :
          (Returns(p) /\ handler[p] \in ReadHandlers
                      /\ last'.resp.status = "ok")
          => last'.resp.body[1] >= start_acked[p]]_vars

\* C2: single flight. Between an invalidation of a key (or process start)
\* and the key being Fresh again there is exactly one recompute-and-persist:
\* never more than one, and the key is not Fresh with none.
C2_SingleFlight ==
    \A k \in Keys :
        /\ persists[k] <= 1
        /\ current_state[k] => persists[k] = 1

\* C3: every score write handler (sp_post_score, sp_update, post_score_coop)
\* leaves the cache key of its board Stale at the moment it returns success.
C3_WriteLeavesStale ==
    SentOk(WriteHandlers) => ~current_state[KeyOf(last.handler)]

\* labels of the two sides of a preview read
CheckLabels == {"sp_get_current_state", "coop_lock"}
ComputeLabels == {"sp_get_sp_previews", "coop_get_coop_previews"}
WriteLabels == {"sp_write_to_file", "coop_write_to_file"}
MarkLabels == {"sp_update_current_state", "coop_set_cached"}
ReadLabels == {"sp_read_from_file", "coop_read_from_file"}

\* the only step that may turn a flag from Fresh to Stale: the invalidation
\* of a write handler on that key
InvalidatedBy(p, k) ==
    /\ pc[p] = "w_invalidate"
    /\ Returns(p)
    /\ KeyOf(handler[p]) = k

\* C4: a preview read that found its key Stale, computed the aggregate and
\* wrote the blob sets the key Fresh and returns the aggregate it computed;
\* a Fresh key turns Stale only by an invalidation, and a read that checks a
\* Fresh key finds it Fresh (takes the cached side).
C4_StaleReadMakesFresh ==
    [][/\ \A p \in Tasks :
            (pc[p] \in MarkLabels /\ pc'[p] # pc[p])
            => /\ Returns(p)
               /\ current_state'[KeyOf(handler[p])]
               /\ previews[p] # <<>>
               /\ last'.resp = Ok(previews[p])
       /\ \A k \in Keys :
            (current_state[k] /\ ~current_state'[k])
            => \E p \in Tasks : InvalidatedBy(p, k)
       /\ \A p \in Tasks :
            (pc[p] \in CheckLabels /\ pc'[p] # pc[p]
                /\ current_state[KeyOf(handler[p])])
            => (is_cached'[p] /\ pc'[p] \in ReadLabels)]_vars

\* C4 witness: after a read persisted the aggregate of the current data and
\* marked sp_previews Fresh, the next read has found the key Fresh.
C4_Witness ==
    \E p \in Tasks :
        /\ pc[p] = "sp_read_from_file"
        /\ is_cached[p]
        /\ current_state[SP_PREVIEWS]
        /\ blob[SP_PREVIEWS] = <<db[SP_PREVIEWS]>>

\* C5: a preview read that found its key Fresh never runs the aggregator,
\* answers a success with the persisted blob of its key, and its steps leave
\* every freshness flag and every blob as they were.
C5_FreshReadServesBlob ==
    [][\A p \in Tasks :
          /\ is_cached[p] => (pc[p] \in ReadLabels /\ previews[p] = <<>>)
          /\ (pc[p] \in ReadLabels /\ pc'[p] # pc[p])
             => /\ Returns(p)
                /\ current_state' = current_state
                /\ blob' = blob
                /\ last'.previews = <<>>
                /\ last'.resp.status = "ok"
                   => last'.resp.body = blob[KeyOf(handler[p])]]_vars

\* C5 witness: a read that found sp_previews Fresh answers with the blob
\* while the database already holds newer data than the blob.
C5_Witness ==
    /\ SentOk({"sp"})
    /\ last.is_cached
    /\ last.resp.body = blob[SP_PREVIEWS]
    /\ blob[SP_PREVIEWS] # <<db[SP_PREVIEWS]>>

\* C6: when a read found its key Stale and the aggregate computation fails,
\* the caller gets the error, no flag changes (the cooperative key, whose
\* lock is held, is Stale at the return) and no blob is written.
C6_ComputeFailureLeavesStale ==
    [][\A p \in Tasks :
          (pc[p] \in ComputeLabels /\ Returns(p))
          => /\ last'.resp = Err
             /\ current_state' = current_state
             /\ blob' = blob
             /\ handler[p] = "get_cooperative_preview"
                => ~current_state'[COOP_PREVIEWS]]_vars

\* C6 witness: a read that found the key Stale answers with an error; the
\* key is Stale and holds no blob.
C6_Witness ==
    /\ Sent(ReadHandlers)
    /\ last.resp.status = "err"
    /\ ~last.is_cached
    /\ ~current_state[KeyOf(last.handler)]
    /\ blob[KeyOf(last.handler)] = <<>>

\* C7: when the aggregate was computed but writing the blob fails, the read
\* answers a success with the aggregate it computed, advances no flag (the
\* cooperative key is Stale at the return) and leaves the blobs alone; a
\* read that then checks a Stale key goes on to recompute.
C7_WriteFailureStillAnswers ==
    [][/\ \A p \in Tasks :
            (pc[p] \in WriteLabels /\ Returns(p))
            => /\ previews[p] # <<>>
               /\ last'.resp = Ok(previews[p])
               /\ current_state' = current_state
               /\ blob' = blob
               /\ handler[p] = "get_cooperative_preview"
                  => ~current_state'[COOP_PREVIEWS]
       /\ \A p \in Tasks :
            (pc[p] \in CheckLabels /\ pc'[p] # pc[p]
                /\ ~current_state[KeyOf(handler[p])])
            => (~is_cached'[p] /\ pc'[p] \in ComputeLabels)]_vars

\* C7 witness: get_cooperative_preview answers a success with the aggregate
\* it computed while coop_previews is still Stale and no blob was written.
C7_Witness ==
    /\ SentOk({"get_cooperative_preview"})
    /\ ~last.is_cached
    /\ last.resp.body = last.previews
    /\ last.previews # <<>>
    /\ ~current_state[COOP_PREVIEWS]
    /\ blob[COOP_PREVIEWS] = <<>>

\* C8: a preview read that found its key Fresh but cannot read the blob
\* falls back to recomputing and answers with the aggregate: a read that
\* found the key Fresh never answers with an error.
C8_UnreadableBlobRecomputes ==
    (Sent(ReadHandlers) /\ last.is_cached) => last.resp.status = "ok"

\* C9: in every write handler the invalidation comes only after the commit:
\* the step that runs the mutation, failed or not, leaves every flag as it
\* was, and a flag turns Stale only in the invalidation step of a handler
\* whose mutation is in the database, which then answers a success.
C9_InvalidateAfterCommit ==
    [][/\ \A p \in Tasks :
            (pc[p] = "w_insert" /\ pc'[p] # pc[p])
            => current_state' = current_state
       /\ \A k \in Keys :
            (current_state[k] /\ ~current_state'[k])
            => \E p \in Tasks :
                /\ InvalidatedBy(p, k)
                /\ id[p] # <<>>
                /\ id[p][1] <= db[k]
                /\ last'.resp = Ok(id[p])]_vars

\* C9 witness: a singleplayer write whose mutation failed answers with an
\* error while sp_previews is still Fresh.
C9_Witness ==
    /\ Sent(SpWriteHandlers)
    /\ last.resp.status = "err"
    /\ current_state[SP_PREVIEWS]

(* ------------------- claims on the deduplication ----------------------- *)
\* ids in the seen-set when the scan reaches row j of raw: the placeholder
\* and both ids of every earlier row
SeenBefore(j) ==
    {Placeholder(d_fn)} \cup {raw[m][1] : m \in 1..(j - 1)}
                        \cup {raw[m][2] : m \in 1..(j - 1)}
BothSeen(j) == raw[j][1] \in SeenBefore(j) /\ raw[j][2] \in SeenBefore(j)
KeptRows == {j \in 1..Len(raw) : ~BothSeen(j)}
\* the rows of raw at the indices in idx, in input order
Pick(idx) ==
    [n \in 1..Cardinality(idx) |->
        raw[CHOOSE j \in idx : Cardinality({m \in idx : m <= j}) = n]]
Kept == [n \in 1..Len(filtered) |->
            IF d_fn = "filter_coop_entries" THEN filtered[n].map_data
                                            ELSE filtered[n]]

\* C10: before truncation the kept entries are, in input order, exactly the
\* rows that had at least one id outside the seen-set when they were reached
\* (a row is discarded iff both its ids were already seen), and afterwards
\* the seen-set holds the placeholder and both ids of every scanned row.
C10_DiscardIffBothSeen ==
    ~d_done => /\ Kept = Pick(KeptRows)
               /\ remove_dups = SeenBefore(Len(raw) + 1)

\* C10 witness: [(A,B),(A,C),(D,B)] is scanned and all three are kept.
C10_Witness ==
    /\ raw = << <<"A", "B">>, <<"A", "C">>, <<"D", "B">> >>
    /\ Kept = raw
    /\ ~d_done

(* ------------------- claims on the ranked map pages -------------------- *)
\* sub is a subsequence of full: its entries occur in full in the same order
RECURSIVE IsSubseqFrom(_, _, _, _)
IsSubseqFrom(sub, a, full, b) ==
    IF a > Len(sub) THEN TRUE
    ELSE IF b > Len(full) THEN FALSE
    ELSE IF sub[a] = full[b] THEN IsSubseqFrom(sub, a + 1, full, b + 1)
    ELSE IsSubseqFrom(sub, a, full, b + 1)
IsSubseq(sub, full) == IsSubseqFrom(sub, 1, full, 1)

PageSent == page.status = "ok"
PageEntries == [n \in 1..Len(page.body) |-> page.body[n].map_data]
ScoreOf(entry) == entry[Len(entry)]

\* C11: the entries of a ranked page (sp_map, get_cooperative_maps through
\* filter_coop_entries) are a subsequence of the stored rows in their order,
\* and the k-th entry has rank k, so the ranks are 1..len with no gap and no
\* repeat, equal scores included.
C11_RanksByPosition ==
    PageSent => /\ IsSubseq(PageEntries, rows)
                /\ \A n \in 1..Len(page.body) : page.body[n].rank = n

\* C11 witness: a page of each endpoint with two neighbouring entries of
\* equal score, ranked n and n + 1.
C11_TiedNeighbours(fn) ==
    /\ page_fn = fn
    /\ PageSent
    /\ \E n \in 1..(Len(page.body) - 1) :
        /\ ScoreOf(page.body[n].map_data) = ScoreOf(page.body[n + 1].map_data)
        /\ page.body[n + 1].rank = page.body[n].rank + 1
C11_Witness == C11_TiedNeighbours("get_cooperative_maps")
C11_WitnessSp == C11_TiedNeighbours("sp_map")

\* C12: truncation comes after deduplication: the cooperative map page is the
\* first `results` entries of the deduplication of all stored rows of the
\* map, so it has min(results, number of kept rows) entries.
C12_TruncateAfterDedup ==
    (page_fn = "get_cooperative_maps" /\ PageSent) =>
        LET kept == FilterLoop(rows, 1, {EMPTY_ID}, <<>>, 1) IN
        /\ page.body = Truncated(kept, results)
        /\ Len(page.body) = IF Len(kept) < results THEN Len(kept) ELSE results

\* C13: idempotence. Feeding the entries of a deduplicated, ranked and
\* truncated result through the same pass again (same limit) returns the
\* same entries in the same order with the same ranks.  The limit of the
\* first pass is at least the length of its result, and no more is known of
\* it, so every such limit is tried.
C13_Idempotent ==
    d_done =>
        IF d_fn = "filter_coop_entries"
        THEN \A limit \in Len(filtered)..MaxLen :
                filter_coop_entries(Kept, limit) = filtered
        ELSE get_coop_preview(Kept) = filtered

\* C13 witness: a pass of each implementation that discarded a row and kept
\* two, and (on the map page) was cut by the limit.
C13_Witness ==
    /\ d_done
    /\ d_fn = "filter_coop_entries"
    /\ Len(raw) = 3
    /\ Cardinality(KeptRows) = 2
    /\ Len(filtered) = 1
C13_WitnessPreview ==
    /\ d_done
    /\ d_fn = "get_coop_preview"
    /\ Len(raw) = 3
    /\ Len(filtered) = 2

(* ------------------ claims on the board-wide preview ------------------- *)
\* the deduplication of the rows rs, stated on the rows alone: the rows, in
\* order, that have an id which is neither the placeholder ph nor an id of an
\* earlier row
IdsBefore(rs, j, ph) ==
    {ph} \cup {rs[m][1] : m \in 1..(j - 1)} \cup {rs[m][2] : m \in 1..(j - 1)}
KeptIndices(rs, ph) ==
    {j \in 1..Len(rs) : ~(/\ rs[j][1] \in IdsBefore(rs, j, ph)
                          /\ rs[j][2] \in IdsBefore(rs, j, ph))}
Deduplicated(rs, ph) ==
    LET idx == KeptIndices(rs, ph) IN
    [n \in 1..Cardinality(idx) |->
        rs[CHOOSE j \in idx : Cardinality({m \in idx : m <= j}) = n]]

\* C14: the preview record of a map holds the first min(7, k) of the k
\* deduplicated entries of the rows its query returned, in their order: never
\* more than 7, all 7 of exactly 7, and an empty list (in an Ok record) of 0.
C14_PreviewIsFirstSeven ==
    \A n \in 1..Len(vec_final) :
        LET kept == Deduplicated(QueryRows(vec_final[n].map_id), DEFAULT_ID)
            k == Len(kept)
        IN  /\ Len(vec_final[n].scores) <= PREVIEW_SIZE
            /\ vec_final[n].scores =
                   SubSeq(kept, 1, IF k < PREVIEW_SIZE THEN k ELSE PREVIEW_SIZE)

\* the record built for a map whose query returned rows with k kept entries
RecordOfKept(k) ==
    \E n \in 1..Len(vec_final) :
        /\ Len(Deduplicated(QueryRows(vec_final[n].map_id), DEFAULT_ID)) = k
        /\ Len(vec_final[n].scores) = IF k < PREVIEW_SIZE THEN k
                                                          ELSE PREVIEW_SIZE

\* C14 witness: 8 kept entries, of which the record holds 7.
C14_Witness == RecordOfKept(PREVIEW_SIZE + 1)
\* exactly 7 kept entries, all in the record; and none, with an empty record
C14_WitnessSeven == RecordOfKept(PREVIEW_SIZE)
C14_WitnessEmpty == RecordOfKept(0)

\* the first PREVIEW_SIZE entries of the deduplicated rows rs
FirstSeven(rs) ==
    LET kept == Deduplicated(rs, DEFAULT_ID) IN
    SubSeq(kept, 1, IF Len(kept) < PREVIEW_SIZE THEN Len(kept)
                                                ELSE PREVIEW_SIZE)

\* C15: the board-wide cooperative preview holds exactly one record per map
\* id of the registry, in registry order, and the entries of the record of
\* map m are computed from the stored rows of map m.
C15_OneRecordPerMapFromItsRows ==
    \A p \in Tasks :
        pc[p] = "coop_write_to_file" =>
            LET built == previews[p][1] IN
            /\ Len(built) = Len(Registry)
            /\ \A n \in 1..Len(built) :
                /\ built[n].map_id = Registry[n]
                /\ built[n].scores = FirstSeven(store[Registry[n]])

\* the aggregate has a record for every map of the registry, in order
Complete(aggregate) ==
    [n \in 1..Len(aggregate) |-> aggregate[n].map_id] = Registry

\* C16: no partial aggregate. When the fetch of any one map (or of the
\* registry) fails while the board-wide preview is built, the request
\* answers with an error and writes neither blob nor flag; whatever is
\* persisted or answered with Ok has a record for every map.
C16_NoPartialAggregate ==
    [][\A p \in Tasks :
        /\ (pc[p] = "get_coop_previews_err" /\ pc'[p] # pc[p]) =>
              /\ last'.resp = Err
              /\ blob' = blob
              /\ current_state' = current_state
        /\ blob'[COOP_PREVIEWS] # blob[COOP_PREVIEWS] =>
              Complete(blob'[COOP_PREVIEWS][1])
        /\ last'.resp.status = "ok" => Complete(last'.resp.body[1])]_vars

\* C16 witness: a fetch has failed after the record of an earlier map was
\* built, and nothing is persisted.
C16_Witness ==
    \E p \in Tasks :
        /\ pc[p] = "get_coop_previews_err"
        /\ Len(vec_final) >= 1
        /\ Len(vec_final) < Len(map_id_vec)
        /\ blob[COOP_PREVIEWS] = <<>>

(* --------------------- claims on the process start --------------------- *)
\* C17: a key that was never referenced is Stale.  At process start every
\* key is Stale, whether or not a cache file of an earlier process exists; a
\* preview read that finds its key Stale goes on to recompute (it neither
\* fails nor reads the file); and a key turns Fresh only in the last step of
\* a preview read of that key that has recomputed.  So the first read of a
\* key recomputes.
C17_StartsStale ==
    /\ \A k \in Keys : ~current_state[k]
    /\ [][\A p \in Tasks :
            /\ (/\ pc[p] \in CheckLabels
                /\ pc'[p] # pc[p]
                /\ ~current_state[KeyOf(handler[p])]) =>
                    pc'[p] \in ComputeLabels
            /\ (/\ ~current_state[KeyOf(handler[p])]
                /\ current_state'[KeyOf(handler[p])]
                /\ pc'[p] # pc[p]) =>
                    /\ pc[p] \in MarkLabels
                    /\ previews[p] # <<>>]_vars

\* C17 witness: the first read of a key since the start (nothing written or
\* invalidated yet) has found it Stale and is recomputing, with the cache
\* file of the earlier process still in place.
C17_Witness ==
    \E p \in Tasks :
        /\ pc[p] \in ComputeLabels
        /\ blob[KeyOf(handler[p])] # <<>>
        /\ persists[KeyOf(handler[p])] = 0
        /\ db[KeyOf(handler[p])] = 0

(* ------------- claims on the map pages and the cache ------------------- *)
\* C18: the ranked map page endpoints (sp_map, get_cooperative_maps) bypass
\* the preview cache: whatever the freshness flags and cache files are, the
\* page they answer with is made of the stored rows of the map, and answering
\* changes no flag, no cache file and not the lock.
C18_PagesBypassCache ==
    [][page' # page =>
        /\ current_state' = current_state
        /\ blob' = blob
        /\ lock_owner' = lock_owner
        /\ page'.status = "ok" =>
              IsSubseq([n \in 1..Len(page'.body) |-> page'.body[n].map_data],
                       rows)]_vars

\* C18 witness: a page was answered from the stored rows while both keys were
\* Fresh with their cache files in place.
C18_Witness ==
    /\ PageSent
    /\ Len(page.body) >= 1
    /\ \A k \in Keys : current_state[k] /\ blob[k] # <<>>

\* C19: in every ranked entry the points are the points scorer applied to
\* the entry's own rank and to nothing else, so entries of equal rank have
\* equal points in any two pages, and down a page the points never rise.
C19_PointsOfOwnRank ==
    PageSent =>
        /\ \A n \in 1..Len(page.body) :
              page.body[n].points = score(page.body[n].rank)
        /\ \A n \in 1..(Len(page.body) - 1) :
              page.body[n + 1].points <= page.body[n].points

\* C19 witness: a page of two or more entries, the first with the points of
\* rank 1 and the second with fewer.
C19_Witness ==
    /\ PageSent
    /\ Len(page.body) >= 2
    /\ page.body[1].points = MAX_POINTS
    /\ page.body[2].points < MAX_POINTS

\* C20: the solo ranked page holds no player id twice: of the stored rows,
\* ascending by score, a player is on the page only with the first (best) of
\* its rows, and the entries keep the order of the rows.
C20_SoloPlayersOnce ==
    (page_fn = "sp_map" /\ PageSent) =>
        /\ \A m, n \in 1..Len(page.body) :
              page.body[m].map_data[1] = page.body[n].map_data[1] => m = n
        /\ \A n \in 1..Len(page.body) :
              \E j \in 1..Len(rows) :
                  /\ rows[j] = page.body[n].map_data
                  /\ \A h \in 1..(j - 1) : rows[h][1] # rows[j][1]
        /\ IsSubseq(PageEntries, rows)

\* C20 witness: the rows [(A,100),(B,101),(A,102)] give the page [A, B].
C20_Witness ==
    /\ page_fn = "sp_map"
    /\ rows = << <<"A", 100>>, <<"B", 101>>, <<"A", 102>> >>
    /\ PageSent
    /\ PageEntries = << <<"A", 100>>, <<"B", 101>> >>

(* ------------------- claims on the cache, continued -------------------- *)
\* C21: once sp_previews is Fresh it stays Fresh until a singleplayer score
\* write succeeds: the flag falls only in the invalidation step of
\* sp_post_score or sp_update, which answers a success; meanwhile a read
\* that checks the flag takes the cached side, and a read on the cached side
\* answers with the blob and leaves the flag alone.
C21_FreshUntilSpWrite ==
    [][/\ (current_state[SP_PREVIEWS] /\ ~current_state'[SP_PREVIEWS])
          => \E p \in Tasks :
                /\ pc[p] = "w_invalidate"
                /\ handler[p] \in SpWriteHandlers
                /\ Returns(p)
                /\ last'.resp.status = "ok"
       /\ \A p \in Tasks :
            (pc[p] = "sp_get_current_state" /\ pc'[p] # pc[p]
                /\ current_state[SP_PREVIEWS])
            => pc'[p] = "sp_read_from_file"
       /\ \A p \in Tasks :
            (pc[p] = "sp_read_from_file" /\ Returns(p)
                /\ last'.resp.status = "ok")
            => last'.resp.body = blob[SP_PREVIEWS]]_vars

\* C21 witness: a cooperative score was written and sp_previews is still
\* Fresh: a read that found it Fresh answers with the blob.
C21_Witness ==
    /\ SentOk({"sp"})
    /\ last.is_cached
    /\ current_state[SP_PREVIEWS]
    /\ last.resp.body = blob[SP_PREVIEWS]
    /\ db[COOP_PREVIEWS] >= 1

\* labels at which a handler is about to take the lock over the flags
LockLabels ==
    {"sp_get_current_state", "sp_update_current_state", "coop_lock",
     "w_invalidate"}

\* C22: the aggregate recomputation and the blob write are not performed
\* while the lock over the freshness table is held: no task that is
\* computing or writing a blob owns the lock, so no handler of the other key
\* waits for the lock behind a recompute.
C22_ComputeOutsideLock ==
    \A p \in Tasks :
        pc[p] \in ComputeLabels \cup WriteLabels
        => /\ lock_owner # p
           /\ \A q \in Tasks :
                (pc[q] \in LockLabels
                    /\ KeyOf(handler[q]) # KeyOf(handler[p]))
                => LockFree

\* C23: invalidation is per board kind and touches nothing else: the table
\* holds exactly one flag per board kind, and every step of sp_post_score
\* or sp_update leaves the coop_previews flag and both blobs as they were;
\* its invalidation step leaves sp_previews Stale.
C23_InvalidationPerBoard ==
    [][/\ DOMAIN current_state' = {SP_PREVIEWS, COOP_PREVIEWS}
       /\ \A p \in Tasks :
            (handler[p] \in SpWriteHandlers /\ pc'[p] # pc[p])
            => /\ current_state'[COOP_PREVIEWS] = current_state[COOP_PREVIEWS]
               /\ blob' = blob
               /\ pc[p] = "w_invalidate" => ~current_state'[SP_PREVIEWS]
               /\ pc[p] # "w_invalidate"
                  => current_state'[SP_PREVIEWS] = current_state[SP_PREVIEWS]]_vars

\* C23 witness: a singleplayer write has invalidated sp_previews while
\* coop_previews is Fresh and both blobs are in place.
C23_Witness ==
    /\ SentOk(SpWriteHandlers)
    /\ ~current_state[SP_PREVIEWS]
    /\ current_state[COOP_PREVIEWS]
    /\ blob[SP_PREVIEWS] # <<>>
    /\ blob[COOP_PREVIEWS] # <<>>

(* -------------- claims on the deduplication, continued ----------------- *)
\* C24: the placeholder id marked seen before the scan ("" on the map
\* page, "N/A" in the preview) never occupies a ranked slot: no entry of the
\* deduplicated output has the placeholder as one of its two player ids.
C24_PlaceholderNeverRanked ==
    \A n \in 1..Len(Kept) :
        /\ Kept[n][1] # Placeholder(d_fn)
        /\ Kept[n][2] # Placeholder(d_fn)

\* C26: whenever a key is Fresh, a preview read has written the blob of
\* that key since the key was last set Stale (by the last invalidation, or
\* at the start); and a flag is set Fresh only by a preview read, in the
\* step that follows its own successful blob write.
C26_FreshImpliesPersisted ==
    [][/\ \A k \in Keys : current_state'[k] => persists'[k] >= 1
       /\ \A k \in Keys :
            (~current_state[k] /\ current_state'[k])
            => \E p \in Tasks :
                /\ handler[p] \in ReadHandlers
                /\ KeyOf(handler[p]) = k
                /\ pc[p] \in MarkLabels
                /\ Returns(p)]_vars

\* the first row of raw that names player pl, in either slot
FirstRowOf(pl) ==
    CHOOSE j \in 1..Len(raw) :
        /\ pl \in {raw[j][1], raw[j][2]}
        /\ \A m \in 1..(j - 1) : pl \notin {raw[m][1], raw[m][2]}

\* C27: deduplication never loses a player's best run: before truncation,
\* for every id in the input other than the placeholder, the first input
\* row that names it (in either slot) is among the kept entries, no later
\* than its input position.
C27_BestRunKept ==
    ~d_done =>
        \A pl \in IdsOf(raw) \ {Placeholder(d_fn)} :
            \E n \in 1..Len(Kept) :
                /\ n <= FirstRowOf(pl)
                /\ Kept[n] = raw[FirstRowOf(pl)]

\* C27 witness: in [(A,B),(A,B),(C,B)] the repeat of (A,B) is discarded and
\* the first row of C, whose partner was seen, is kept.
C27_Witness ==
    /\ raw = << <<"A", "B">>, <<"A", "B">>, <<"C", "B">> >>
    /\ Kept = << <<"A", "B">>, <<"C", "B">> >>
    /\ ~d_done

\* what the other implementation keeps of the rows scanned so far
KeptByOther ==
    IF d_fn = "filter_coop_entries"
    THEN PreviewLoop(raw, 1, {DEFAULT_ID}, <<>>)
    ELSE LET f == FilterLoop(raw, 1, {EMPTY_ID}, <<>>, 1)
         IN  [n \in 1..Len(f) |-> f[n].map_data]

\* C28: the two deduplication implementations agree: on every input, the
\* pass of the map page (filter_coop_entries) and the pass of the preview
\* (get_coop_preview) keep the same entries in the same order, before
\* their truncations.
C28_ImplementationsAgree ==
    ~d_done => Kept = KeptByOther

C30_PostScoreCoopAnswersOne ==
    [][\A p \in Tasks :
          (handler[p] = "post_score_coop" /\ pc'[p] # pc[p])
          => /\ pc[p] \notin LockLabels
             /\ current_state' = current_state
             /\ lock_owner' = lock_owner
             /\ Returns(p)
             /\ last'.resp = Ok(<<1>>)]_vars

\* C30 witness: post_score_coop has answered a success with id 1 although
\* its insert failed (no cooperative score is in the database), and
\* coop_previews is Fresh.
C30_Witness ==
    /\ SentOk({"post_score_coop"})
    /\ last.resp.body = <<1>>
    /\ db[COOP_PREVIEWS] = 0
    /\ current_state[COOP_PREVIEWS]

(* --------------- claims on the cache under cancellation ---------------- *)
\* C25: when the request that started a recompute of a Stale key is
\* cancelled while the recompute is in flight, the recompute still runs to
\* completion: at the moment the request is dropped the key is Fresh or a
\* recompute of that key is still running, so that no later reader has to
\* start one.
C25_CancelledRecomputeCompletes ==
    (last.handler \in ReadHandlers
        /\ last.resp.status = "dropped_in_recompute")
    => \/ current_state[KeyOf(last.handler)]
       \/ \E q \in Tasks :
            /\ pc[q] \in RecomputeLabels
            /\ KeyOf(handler[q]) = KeyOf(last.handler)

====
